---- MODULE Spec2Model ----
(***************************************************************************)
(* todaybox: the in-memory todo collection of src/src/server.tsx, its      *)
(* recurrence resolver and its change notification, as a state machine.    *)
(*                                                                         *)
(* Optional fields of the source (dueDate?, completedAt?, recurrence?,     *)
(* hasGeneratedNextOccurrence?, memo?) are sequences of length at most 1:  *)
(* <<>> is undefined, <<v>> is the value v.                                *)
(* Instants are minutes counted from the instant `now` the server          *)
(* module was loaded at; the local time zone is UTC.                       *)
(***************************************************************************)
EXTENDS Integers, Sequences, FiniteSets, TLC

None == <<>>
Some(v) == <<v>>
IsSome(o) == Len(o) = 1
Get(o) == o[1]

(***************************************************************************)
(* Bounds of the model.                                                    *)
(***************************************************************************)
\* calls (handlers, subscriptions, clock ticks) in one behaviour of Spec
MaxOps == 3
\* calls in one behaviour of SpecRecurring
MaxRecurringOps == 6
\* base dates of the resolver: this many days following the first one
MaxBaseDays == 70
\* clock ticks in one behaviour
MaxTicks == 1
\* todos in a list handed to a function of lists
MaxItems == 3
\* calls (handlers, requests of a rebuild) in one behaviour of SpecTray
MaxTrayOps == 3

(***************************************************************************)
(* Calendar arithmetic: Temporal.PlainDate over the ISO calendar.          *)
(***************************************************************************)
PlainDate(y, m, d) == [year |-> y, month |-> m, day |-> d]

IsLeapYear(y) == (y % 4 = 0 /\ y % 100 # 0) \/ y % 400 = 0

\* Temporal.PlainYearMonth.from({year, month}).daysInMonth
DaysInMonth(y, m) ==
  IF m = 2 THEN (IF IsLeapYear(y) THEN 29 ELSE 28)
  ELSE IF m \in {4, 6, 9, 11} THEN 30 ELSE 31

\* days of the months of year y before month m
RECURSIVE DaysBeforeMonth(_, _)
DaysBeforeMonth(y, m) ==
  IF m = 1 THEN 0 ELSE DaysBeforeMonth(y, m - 1) + DaysInMonth(y, m - 1)

\* days in the years 1970 .. y-1
DaysBeforeYear(y) ==
  LET p == y - 1
  IN 365 * (y - 1970) + (p \div 4 - 492) - (p \div 100 - 19) + (p \div 400 - 4)

\* the date as a count of days since 1970-01-01
ToEpochDays(date) ==
  DaysBeforeYear(date.year) + DaysBeforeMonth(date.year, date.month) + (date.day - 1)

RECURSIVE YearOfEpochDays(_, _)
YearOfEpochDays(n, y) ==
  IF n < DaysBeforeYear(y) THEN YearOfEpochDays(n, y - 1)
  ELSE IF n >= DaysBeforeYear(y + 1) THEN YearOfEpochDays(n, y + 1)
  ELSE y

RECURSIVE MonthOfYearDay(_, _, _)
MonthOfYearDay(y, rest, m) ==
  IF rest < DaysInMonth(y, m) THEN m ELSE MonthOfYearDay(y, rest - DaysInMonth(y, m), m + 1)

FromEpochDays(n) ==
  LET y == YearOfEpochDays(n, 1970 + n \div 365)
      rest == n - DaysBeforeYear(y)
      m == MonthOfYearDay(y, rest, 1)
  IN PlainDate(y, m, rest - DaysBeforeMonth(y, m) + 1)

\* PlainDate.add({ days })
AddDays(date, days) == FromEpochDays(ToEpochDays(date) + days)

\* PlainDate.add({ months: 1 }), overflow 'constrain': the day is clamped
AddOneMonth(date) ==
  LET y == IF date.month = 12 THEN date.year + 1 ELSE date.year
      m == IF date.month = 12 THEN 1 ELSE date.month + 1
      dim == DaysInMonth(y, m)
  IN PlainDate(y, m, IF date.day < dim THEN date.day ELSE dim)

\* Temporal.PlainDate.compare
ComparePlainDate(a, b) ==
  IF a.year # b.year THEN (IF a.year < b.year THEN -1 ELSE 1)
  ELSE IF a.month # b.month THEN (IF a.month < b.month THEN -1 ELSE 1)
  ELSE IF a.day # b.day THEN (IF a.day < b.day THEN -1 ELSE 1)
  ELSE 0

\* PlainDate.dayOfWeek: Monday = 1 .. Sunday = 7 (1970-01-01 was a Thursday)
DayOfWeek(date) == ((ToEpochDays(date) + 3) % 7) + 1

(***************************************************************************)
(* Form validation (src/src/validation.ts) and recurrence rules.           *)
(***************************************************************************)
RECURSIVE SelectSeqIn(_, _)
\* Array.filter: the elements of s that lie in the set keep, in order
SelectSeqIn(s, keep) ==
  IF s = <<>> THEN <<>>
  ELSE IF Head(s) \in keep THEN <<Head(s)>> \o SelectSeqIn(Tail(s), keep)
  ELSE SelectSeqIn(Tail(s), keep)

RECURSIVE Dedupe(_, _)
\* [...new Set(s)]: first occurrences, in order
Dedupe(s, seen) ==
  IF s = <<>> THEN <<>>
  ELSE IF Head(s) \in seen THEN Dedupe(Tail(s), seen)
  ELSE <<Head(s)>> \o Dedupe(Tail(s), seen \cup {Head(s)})

RECURSIVE InsertAsc(_, _)
InsertAsc(x, s) ==
  IF s = <<>> THEN <<x>>
  ELSE IF x < Head(s) THEN <<x>> \o s
  ELSE <<Head(s)>> \o InsertAsc(x, Tail(s))

RECURSIVE SortAsc(_)
\* Array.sort((a, b) => a - b) on numbers
SortAsc(s) == IF s = <<>> THEN <<>> ELSE InsertAsc(Head(s), SortAsc(Tail(s)))

\* weeklyWeekdaysSchema without the sort
weeklyWeekdaysSchema_Unsorted(raw) == Dedupe(SelectSeqIn(raw, 0..6), {})

\* weeklyWeekdaysSchema: the submitted values as numbers, those in 0..6 kept,
\* duplicates dropped, ascending
weeklyWeekdaysSchema(raw) == SortAsc(Dedupe(SelectSeqIn(raw, 0..6), {}))

\* monthlyDaySchema: a day in 1..31, anything else is undefined
monthlyDaySchema(raw) ==
  IF IsSome(raw) /\ Get(raw) >= 1 /\ Get(raw) <= 31 THEN raw ELSE None

\* recurrenceFormSchema / the recurrence part of createTodoFormSchema
recurrenceFormSchema(raw) ==
  [recurrenceType |-> raw.recurrenceType,
   weeklyWeekdays |-> weeklyWeekdaysSchema(raw.weeklyWeekdays),
   monthlyDay |-> monthlyDaySchema(raw.monthlyDay)]

Weekly(weekdays) == [type |-> "weekly", weekdays |-> weekdays]
Monthly(dayOfMonth) == [type |-> "monthly", dayOfMonth |-> dayOfMonth]

buildRecurrenceSetting(form) ==
  IF form.recurrenceType = "weekly" /\ Len(form.weeklyWeekdays) > 0
    THEN Some(Weekly(form.weeklyWeekdays))
  ELSE IF form.recurrenceType = "monthly" /\ IsSome(form.monthlyDay)
    THEN Some(Monthly(Get(form.monthlyDay)))
  ELSE None

\* JSON.stringify(recurrence ?? null), as the sequence of its tokens
JsonStringify(recurrence) ==
  IF ~IsSome(recurrence) THEN <<"null">>
  ELSE IF Get(recurrence).type = "weekly"
    THEN <<"type", "weekly", "weekdays">> \o Get(recurrence).weekdays
  ELSE <<"type", "monthly", "dayOfMonth", Get(recurrence).dayOfMonth>>

(***************************************************************************)
(* Recurrence resolver.                                                    *)
(***************************************************************************)
\* resolveMonthlyDay without the clamp to the length of the month
resolveMonthlyDay_Unclamped(year, month, dayOfMonth) == dayOfMonth

resolveMonthlyDay(year, month, dayOfMonth) ==
  LET dim == DaysInMonth(year, month)
  IN IF dayOfMonth < dim THEN dayOfMonth ELSE dim

\* WeekdayOffset without `diff === 0 ? 7 : diff`
WeekdayOffset_SameDay(weekday, currentWeekday) == (weekday - currentWeekday + 7) % 7

\* WeekdayOffset without the wrap to the next week
WeekdayOffset_Backwards(weekday, currentWeekday) == weekday - currentWeekday

\* the offset in days from weekday currentWeekday to weekday, 0 mapped to 7
WeekdayOffset(weekday, currentWeekday) ==
  LET diff == (weekday - currentWeekday + 7) % 7
  IN IF diff = 0 THEN 7 ELSE diff

\* WeeklyNext taking a week as the offset when there is none
WeeklyNext_DefaultsToWeek(baseDate, offsets) ==
  Some(AddDays(baseDate, IF offsets = <<>> THEN 7 ELSE offsets[1]))

\* `nextOffset = offsets[0]`: undefined when there is none, else base plus it
WeeklyNext(baseDate, offsets) ==
  IF offsets = <<>> THEN None ELSE Some(AddDays(baseDate, offsets[1]))

calculateNextDueDateFromRecurrence(recurrence, baseDate) ==
  IF recurrence.type = "weekly" THEN
    LET currentWeekday == DayOfWeek(baseDate) % 7
        offsets == SortAsc([i \in 1..Len(recurrence.weekdays) |->
                             WeekdayOffset(recurrence.weekdays[i], currentWeekday)])
    IN WeeklyNext(baseDate, offsets)
  ELSE
    LET thisMonthDay == resolveMonthlyDay(baseDate.year, baseDate.month, recurrence.dayOfMonth)
        candidate == PlainDate(baseDate.year, baseDate.month, thisMonthDay)
        nextMonth == AddOneMonth(baseDate)
        nextMonthDay == resolveMonthlyDay(nextMonth.year, nextMonth.month, recurrence.dayOfMonth)
    IN IF ComparePlainDate(candidate, baseDate) <= 0
         THEN Some(PlainDate(nextMonth.year, nextMonth.month, nextMonthDay))
         ELSE Some(candidate)

\* SkipsGeneration without the test of the guard
SkipsGeneration_IgnoresGuard(todo) == ~IsSome(todo.recurrence)

\* `if (!todo.recurrence || todo.hasGeneratedNextOccurrence) return undefined`
SkipsGeneration(todo) ==
  ~IsSome(todo.recurrence) \/ todo.hasGeneratedNextOccurrence = Some(TRUE)

\* completeTodoAndMaybeGenerateNext: the todo as it is left, and the todo to
\* append if one is generated.  createdAt is Temporal.Now.instant() and id is
\* createId(createdAt) at the time of the call.
completeTodoAndMaybeGenerateNext(todo, completedAt, baseDate, id, createdAt) ==
  LET done == [todo EXCEPT !.completed = TRUE, !.completedAt = Some(completedAt)]
      nextDueDate == calculateNextDueDateFromRecurrence(Get(todo.recurrence), baseDate)
  IN IF SkipsGeneration(todo)
       THEN [todo |-> done, nextTodo |-> None]
     ELSE IF ~IsSome(nextDueDate)
       THEN [todo |-> done, nextTodo |-> None]
     ELSE [todo |-> [done EXCEPT !.hasGeneratedNextOccurrence = Some(TRUE)],
           nextTodo |-> Some([id |-> id,
                              title |-> todo.title,
                              completed |-> FALSE,
                              createdAt |-> createdAt,
                              completedAt |-> None,
                              recurrence |-> todo.recurrence,
                              hasGeneratedNextOccurrence |-> Some(FALSE),
                              dueDate |-> nextDueDate,
                              isToday |-> FALSE,
                              memo |-> todo.memo])]

(***************************************************************************)
(* The environment: the instant the module is loaded at, and the inputs    *)
(* the handlers are called with.                                           *)
(***************************************************************************)
\* `now`: the local date and the minute of the day the module is loaded at
Now == [date |-> PlainDate(2026, 2, 16), minuteOfDay |-> 18 * 60]

\* the minutes the clock advances by between two calls, when it advances
TickMinutes == 12 * 60

\* instant.toZonedDateTimeISO(zone).toPlainDate(), the zone being UTC
ToPlainDate(instant) == AddDays(Now.date, (instant + Now.minuteOfDay) \div (24 * 60))

\* toLocalNoonInstant
toLocalNoonInstant(date) ==
  (ToEpochDays(date) - ToEpochDays(Now.date)) * (24 * 60) + 12 * 60 - Now.minuteOfDay

\* `seed-${now}-${k}`
SeedId(k) == <<0, 0, k>>

\* `${Number(createdAt.epochMilliseconds)}-${Math.random().toString(36).slice(2, 8)}`
createId(createdAt, random) == <<createdAt, random>>

\* the values Math.random() contributes to an id
RandomSuffixes == {0, 1}

\* an id no todo ever has
UnknownId == <<0, 0, 0>>

Whitespace == {" "}

RECURSIVE TrimStart(_)
TrimStart(s) ==
  IF s # <<>> /\ Head(s) \in Whitespace THEN TrimStart(Tail(s)) ELSE s

RECURSIVE TrimEnd(_)
TrimEnd(s) ==
  IF s # <<>> /\ s[Len(s)] \in Whitespace THEN TrimEnd(SubSeq(s, 1, Len(s) - 1)) ELSE s

\* String.prototype.trim on a string given as the sequence of its characters
Trim(s) == TrimEnd(TrimStart(s))

titleSchema(raw) == Trim(raw)

\* submitted titles
RawTitles == {<<>>, <<" ">>, <<" ", "a", " ">>}

\* submitted due dates, already parsed by dueDateSchema
DueDates == {None, Some(PlainDate(2026, 1, 31))}

\* submitted memos, already trimmed by memoSchema
Memos == {<<>>, <<"m">>}

RecurrenceForm(type, weekdays, day) ==
  [recurrenceType |-> type, weeklyWeekdays |-> weekdays, monthlyDay |-> day]

\* submitted recurrence forms
RecurrenceForms ==
  { RecurrenceForm("none", <<1>>, None),
    RecurrenceForm("weekly", <<>>, None),
    RecurrenceForm("weekly", <<9>>, Some(5)),
    RecurrenceForm("weekly", <<3, 1>>, None),
    RecurrenceForm("weekly", <<1, 3, 1>>, None),
    RecurrenceForm("monthly", <<1>>, Some(31)),
    RecurrenceForm("monthly", <<>>, None),
    RecurrenceForm("monthly", <<>>, Some(32)) }

\* the listeners passed to subscribeTodosChanged; "tray" is the one of main.ts
Listeners == {"tray", "faulty"}

\* whether calling the listener throws
Throws(listener) == listener = "faulty"

(***************************************************************************)
(* The state.                                                              *)
(***************************************************************************)
VARIABLES
  todos,                  \* the collection `todos`, in array order
  todosChangedListeners,  \* the Set of listeners, in insertion order
  clock,                  \* Temporal.Now.instant(), minutes since `now`
  last,                   \* the last call: what it was and what came of it
  history,                \* per todo: completions and generated siblings since
                          \* its recurrence rule was last set or changed
  ops,                    \* calls left in this behaviour
  ticks,                  \* clock ticks so far
  pureCall,               \* a pure function and its arguments
  pureResult,             \* what the function returned, once it has
  tray,                   \* `tray` of main.ts: its title and context menu
  rebuilds                \* the calls of rebuildTrayMenu that have not ended

vars == <<todos, todosChangedListeners, clock, last, history, ops, ticks, pureCall, pureResult,
          tray, rebuilds>>

\* the variables of the calls of pure functions
pure == <<pureCall, pureResult>>

Todo(id, title, completed, createdAt, completedAt, recurrence, guard, dueDate, isToday, memo) ==
  [id |-> id, title |-> title, completed |-> completed, createdAt |-> createdAt,
   completedAt |-> completedAt, recurrence |-> recurrence,
   hasGeneratedNextOccurrence |-> guard, dueDate |-> dueDate, isToday |-> isToday,
   memo |-> memo]

\* the seed data pushed when the module is loaded
SeedTodos ==
  << Todo(SeedId(1), <<"kaimono">>, FALSE, 0 - 24 * 60, None, None, None,
          Some(ToPlainDate(24 * 60)), TRUE, None),
     Todo(SeedId(2), <<"seikyuusho">>, FALSE, 0 - 6 * 60, None, None, None,
          Some(ToPlainDate(48 * 60)), FALSE, None),
     Todo(SeedId(3), <<"jimu">>, TRUE, 0 - 12 * 60,
          Some(toLocalNoonInstant(AddDays(Now.date, 0 - 3))), None, None,
          Some(ToPlainDate(0 - 24 * 60)), FALSE, None),
     Todo(SeedId(4), <<"hon">>, FALSE, 0 - 30, None, None, None, None, FALSE, None),
     Todo(SeedId(5), <<"heya">>, TRUE, 0 - 72 * 60,
          Some(toLocalNoonInstant(AddDays(Now.date, 0 - 1))), None, None,
          None, FALSE, None) >>

NoHistory == [completions |-> 0, generated |-> 0]

\* `last` before any call; id is the id the call was given (<<>> when it takes
\* none), found whether the handler found something to change, notifyCalls the
\* times it called notifyTodosChanged, notified the listeners invoked, in
\* order, raised whether an exception left the handler, and observed the
\* collection as it was when the handler called notifyTodosChanged, which is
\* what a listener reads (<<>> when it was not called)
NoCall == [op |-> "none", id |-> <<>>, found |-> FALSE, notifyCalls |-> 0,
           notified |-> <<>>, raised |-> FALSE, observed |-> <<>>]

\* the state once the module is loaded
Loaded ==
  /\ todos = SeedTodos
  /\ todosChangedListeners = <<>>
  /\ clock = 0
  /\ last = NoCall
  /\ history = [i \in 1..Len(SeedTodos) |-> NoHistory]
  /\ ticks = 0
  /\ tray = None
  /\ rebuilds = <<>>

NoPure == [fn |-> "none"]

Init ==
  /\ Loaded
  /\ ops = MaxOps
  /\ pureCall = NoPure
  /\ pureResult = None

(***************************************************************************)
(* Change notification.                                                    *)
(***************************************************************************)
RECURSIVE NotifiedOf(_)
\* notifyTodosChanged: the listeners called, in order; the loop ends at the
\* first listener that throws, the exception leaving the loop
NotifiedOf(listeners) ==
  IF listeners = <<>> THEN <<>>
  ELSE IF Throws(Head(listeners)) THEN <<Head(listeners)>>
  ELSE <<Head(listeners)>> \o NotifiedOf(Tail(listeners))

\* whether notifyTodosChanged ends by an exception
NotifyRaises(listeners) == \E i \in 1..Len(listeners) : Throws(listeners[i])

\* what a handler leaves in `last` that called notifyTodosChanged when the
\* collection was `observed`
Notified(op, id, observed) ==
  [op |-> op, id |-> id, found |-> TRUE, notifyCalls |-> 1,
   notified |-> NotifiedOf(todosChangedListeners),
   raised |-> NotifyRaises(todosChangedListeners),
   observed |-> observed]

\* what a handler leaves in `last` that changed the collection and then,
\* as its last statement, notified
Called(op, id) == Notified(op, id, todos')

\* what a handler that found nothing to do leaves in `last`
Skipped(op, id) ==
  [op |-> op, id |-> id, found |-> FALSE, notifyCalls |-> 0,
   notified |-> <<>>, raised |-> FALSE, observed |-> <<>>]

\* a call of rebuildTrayMenu waiting for the answer to its fetch of /api/today
Fetching == [phase |-> "fetching", payload |-> None]

\* rebuildTrayMenu up to its first await: it returns at once when there is
\* no tray, else it sends the request; pending are the calls not ended yet
rebuildTrayMenu(pending) == IF tray = None THEN pending ELSE Append(pending, Fetching)

\* the listener of main.ts, when notifyTodosChanged invoked it, has called
\* rebuildTrayMenu; no other listener touches the tray
ListenersRan ==
  /\ rebuilds' = IF \E k \in 1..Len(last'.notified) : last'.notified[k] = "tray"
                   THEN rebuildTrayMenu(rebuilds)
                   ELSE rebuilds
  /\ tray' = tray

\* todos.findIndex((t) => t.id === id), 0 when there is none
FindIndex(items, id) ==
  IF \E i \in 1..Len(items) : items[i].id = id
    THEN CHOOSE i \in 1..Len(items) :
           items[i].id = id /\ \A j \in 1..(i - 1) : items[j].id # id
    ELSE 0

\* the ids the handlers are called with: those of two seed todos (one open,
\* one completed), of every todo added since, and one no todo has
Ids ==
  {SeedId(1), SeedId(3), UnknownId}
    \cup {todos[i].id : i \in {j \in 1..Len(todos) : Len(todos[j].id) = 2}}

\* RemoveAt as Array.splice(index): everything from the index on is removed
RemoveAt_ToEnd(s, index) == SubSeq(s, 1, index - 1)

\* Array.splice(index, 1)
RemoveAt(s, index) == SubSeq(s, 1, index - 1) \o SubSeq(s, index + 1, Len(s))

Step == ops > 0 /\ ops' = ops - 1 /\ UNCHANGED pure

(***************************************************************************)
(* The handlers.                                                           *)
(***************************************************************************)
\* submitted forms of POST /todos
CreateForm(title, dueDate, memo, isToday, recurrence, filter) ==
  [title |-> title, dueDate |-> dueDate, memo |-> memo, isToday |-> isToday,
   recurrence |-> recurrence, filter |-> filter]

CreateForms ==
  { CreateForm(<<>>, None, <<>>, FALSE, RecurrenceForm("none", <<>>, None), ""),
    CreateForm(<<" ">>, Some(PlainDate(2026, 1, 31)), <<"m">>, TRUE,
               RecurrenceForm("weekly", <<1>>, None), "today"),
    CreateForm(<<"a">>, None, <<>>, FALSE, RecurrenceForm("none", <<>>, None), ""),
    CreateForm(<<"a">>, None, <<>>, FALSE, RecurrenceForm("weekly", <<>>, None), "today"),
    CreateForm(<<" ", "a", " ">>, Some(PlainDate(2026, 1, 31)), <<"m">>, TRUE,
               RecurrenceForm("monthly", <<>>, Some(31)), ""),
    CreateForm(<<"a", " ", "b">>, None, <<"m">>, FALSE,
               RecurrenceForm("weekly", <<3, 1, 3>>, None), "") }

\* the todo POST /todos pushes for a validated form
NewTodo(form, createdAt, random) ==
  Todo(createId(createdAt, random),
       titleSchema(form.title),
       FALSE,
       createdAt,
       None,
       buildRecurrenceSetting(recurrenceFormSchema(form.recurrence)),
       Some(FALSE),
       form.dueDate,
       form.isToday \/ form.filter = "today",
       IF form.memo = <<>> THEN None ELSE Some(form.memo))

\* CreateAccepts testing the title as submitted, not trimmed
CreateAccepts_Untrimmed(form) == form.title # <<>>

\* whether POST /todos pushes a todo: `if (title)`
CreateAccepts(form) == titleSchema(form.title) # <<>>

\* POST /todos
Create(form, random) ==
  /\ Step
  /\ IF CreateAccepts(form)
       THEN /\ todos' = Append(todos, NewTodo(form, clock, random))
            /\ history' = Append(history, NoHistory)
            /\ last' = Called("create", <<>>)
       ELSE /\ last' = Skipped("create", <<>>)
            /\ UNCHANGED <<todos, history>>
  /\ UNCHANGED <<todosChangedListeners, clock, ticks>>
  /\ ListenersRan

\* Reopened without `todo.completedAt = undefined`
Reopened_KeepsCompletedAt(todo) == [todo EXCEPT !.completed = FALSE]

\* Reopened taking the guard back as well
Reopened_ResetsGuard(todo) ==
  [todo EXCEPT !.completed = FALSE, !.completedAt = None,
               !.hasGeneratedNextOccurrence = Some(FALSE)]

\* the todo as POST /todos/:id/toggle leaves a completed one
Reopened(todo) == [todo EXCEPT !.completed = FALSE, !.completedAt = None]

\* recurrenceBaseDate without `todo.dueDate ??`
recurrenceBaseDate_CreationDate(todo) == ToPlainDate(todo.createdAt)

\* `todo.dueDate ?? todo.createdAt.toZonedDateTimeISO(zone).toPlainDate()`
recurrenceBaseDate(todo) ==
  IF IsSome(todo.dueDate) THEN Get(todo.dueDate) ELSE ToPlainDate(todo.createdAt)

\* the todo as POST /todos/:id/toggle leaves it, and the todo it appends, if any
Toggled(todo, instant, random) ==
  IF ~todo.completed
    THEN completeTodoAndMaybeGenerateNext(
           [todo EXCEPT !.completed = TRUE],
           instant,
           recurrenceBaseDate(todo),
           createId(instant, random),
           instant)
    ELSE [todo |-> Reopened(todo), nextTodo |-> None]

\* ToggleNotifies with notifyTodosChanged called before todos.push(nextTodo)
ToggleNotifies_BeforePush(changed, nextTodo) == changed

\* the collection when POST /todos/:id/toggle calls notifyTodosChanged: the
\* todo is changed in place and nextTodo, if any, is pushed before the call
ToggleNotifies(changed, nextTodo) == changed \o nextTodo

\* POST /todos/:id/toggle
Toggle(id, random) ==
  /\ Step
  /\ LET index == FindIndex(todos, id)
         result == Toggled(todos[index], clock, random)
     IN IF index # 0
          THEN /\ todos' = [todos EXCEPT ![index] = result.todo] \o result.nextTodo
               /\ history' =
                    [history EXCEPT
                       ![index] = IF result.todo.completed
                                    THEN [completions |-> @.completions + 1,
                                          generated |-> @.generated + Len(result.nextTodo)]
                                    ELSE @]
                    \o [k \in 1..Len(result.nextTodo) |-> NoHistory]
               /\ last' = Notified("toggle", id,
                                   ToggleNotifies([todos EXCEPT ![index] = result.todo],
                                                  result.nextTodo))
          ELSE /\ last' = Skipped("toggle", id)
               /\ UNCHANGED <<todos, history>>
  /\ UNCHANGED <<todosChangedListeners, clock, ticks>>
  /\ ListenersRan

\* POST /todos/:id/today
ToggleToday(id) ==
  /\ Step
  /\ LET index == FindIndex(todos, id)
     IN IF index # 0
          THEN /\ todos' = [todos EXCEPT ![index].isToday = ~@]
               /\ last' = Called("today", id)
          ELSE /\ last' = Skipped("today", id)
               /\ UNCHANGED todos
  /\ UNCHANGED <<todosChangedListeners, clock, history, ticks>>
  /\ ListenersRan

\* GuardAfterRecurrence resetting the guard whenever a rule is set
GuardAfterRecurrence_AlwaysResets(oldRecurrence, recurrence, guard) ==
  IF ~IsSome(recurrence) THEN None ELSE Some(FALSE)

\* GuardAfterRecurrence keeping the guard when the rule is removed
GuardAfterRecurrence_KeptOnRemoval(oldRecurrence, recurrence, guard) ==
  IF ~IsSome(recurrence) THEN guard
  ELSE IF JsonStringify(oldRecurrence) # JsonStringify(recurrence) THEN Some(FALSE)
  ELSE guard

\* GuardAfterRecurrence leaving the guard as it is
GuardAfterRecurrence_KeepsGuard(oldRecurrence, recurrence, guard) == guard

\* the guard POST /todos/:id/recurrence leaves on the todo
GuardAfterRecurrence(oldRecurrence, recurrence, guard) ==
  IF ~IsSome(recurrence) THEN None
  ELSE IF JsonStringify(oldRecurrence) # JsonStringify(recurrence) THEN Some(FALSE)
  ELSE guard

\* POST /todos/:id/recurrence
SetRecurrence(id, form) ==
  /\ Step
  /\ LET index == FindIndex(todos, id)
         recurrence == buildRecurrenceSetting(recurrenceFormSchema(form))
     IN IF index # 0
          THEN /\ todos' =
                    [todos EXCEPT
                       ![index].recurrence = recurrence,
                       ![index].hasGeneratedNextOccurrence =
                          GuardAfterRecurrence(todos[index].recurrence, recurrence, @)]
               /\ history' =
                    [history EXCEPT
                       ![index] = IF todos[index].recurrence = recurrence
                                    THEN @ ELSE NoHistory]
               /\ last' = Called("recurrence", id)
          ELSE /\ last' = Skipped("recurrence", id)
               /\ UNCHANGED <<todos, history>>
  /\ UNCHANGED <<todosChangedListeners, clock, ticks>>
  /\ ListenersRan

\* POST /todos/:id/due
SetDueDate(id, dueDate) ==
  /\ Step
  /\ LET index == FindIndex(todos, id)
     IN IF index # 0
          THEN /\ todos' = [todos EXCEPT ![index].dueDate = dueDate]
               /\ last' = Called("due", id)
          ELSE /\ last' = Skipped("due", id)
               /\ UNCHANGED todos
  /\ UNCHANGED <<todosChangedListeners, clock, history, ticks>>
  /\ ListenersRan

\* Spliced without the test of the index: splice(-1, 1) removes the last element
Spliced_Unchecked(items, index) ==
  IF index # 0 THEN RemoveAt(items, index) ELSE RemoveAt(items, Len(items))

\* todos.splice(index, 1), done when index !== -1
Spliced(items, index) == IF index # 0 THEN RemoveAt(items, index) ELSE items

\* POST /todos/:id/delete
Delete(id) ==
  /\ Step
  /\ LET index == FindIndex(todos, id)
     IN /\ todos' = Spliced(todos, index)
        /\ history' = Spliced(history, index)
        /\ last' = IF index # 0 THEN Called("delete", id)
                                ELSE Skipped("delete", id)
  /\ UNCHANGED <<todosChangedListeners, clock, ticks>>
  /\ ListenersRan

\* subscribeTodosChanged(listener): Set.add
Subscribe(listener) ==
  /\ Step
  /\ todosChangedListeners' =
       IF \E i \in 1..Len(todosChangedListeners) : todosChangedListeners[i] = listener
         THEN todosChangedListeners
         ELSE Append(todosChangedListeners, listener)
  /\ last' = [NoCall EXCEPT !.op = "subscribe"]
  /\ UNCHANGED <<todos, clock, history, ticks>>
  /\ ListenersRan

\* the function subscribeTodosChanged returned: Set.delete
Unsubscribe(listener) ==
  /\ Step
  /\ \E i \in 1..Len(todosChangedListeners) : todosChangedListeners[i] = listener
  /\ todosChangedListeners' = SelectSeq(todosChangedListeners, LAMBDA l : l # listener)
  /\ last' = [NoCall EXCEPT !.op = "unsubscribe"]
  /\ UNCHANGED <<todos, clock, history, ticks>>
  /\ ListenersRan

\* time passes between two calls
Tick ==
  /\ Step
  /\ ticks < MaxTicks
  /\ ticks' = ticks + 1
  /\ clock' = clock + TickMinutes
  /\ last' = [NoCall EXCEPT !.op = "tick"]
  /\ UNCHANGED <<todos, todosChangedListeners, history>>
  /\ ListenersRan

Next ==
  \/ \E form \in CreateForms, random \in RandomSuffixes : Create(form, random)
  \/ \E id \in Ids, random \in RandomSuffixes : Toggle(id, random)
  \/ \E id \in Ids : ToggleToday(id)
  \/ \E id \in Ids, form \in RecurrenceForms : SetRecurrence(id, form)
  \/ \E id \in Ids, dueDate \in DueDates : SetDueDate(id, dueDate)
  \/ \E id \in Ids : Delete(id)
  \/ \E listener \in Listeners : Subscribe(listener)
  \/ \E listener \in Listeners : Unsubscribe(listener)
  \/ Tick

Spec == Init /\ [][Next]_vars

(***************************************************************************)
(* Longer behaviours of the calls that read or write the guard:            *)
(* completion, recurrence change and deletion.                             *)
(***************************************************************************)
InitRecurring ==
  /\ Loaded
  /\ ops = MaxRecurringOps
  /\ pureCall = NoPure
  /\ pureResult = None

NextRecurring ==
  \/ \E id \in Ids, random \in RandomSuffixes : Toggle(id, random)
  \/ \E id \in Ids, form \in RecurrenceForms : SetRecurrence(id, form)
  \/ \E id \in Ids : Delete(id)

SpecRecurring == InitRecurring /\ [][NextRecurring]_vars

(***************************************************************************)
(* Properties of the collection and its handlers.                          *)
(***************************************************************************)
\* the handlers that take the id of a todo
IdHandlers == {"toggle", "today", "due", "recurrence", "delete"}

\* whether some todo of items has the id
Known(items, id) == \E i \in 1..Len(items) : items[i].id = id

\* the rules r and q are equal by value, weekdays compared as sets
SameRule(r, q) ==
  IF ~IsSome(r) \/ ~IsSome(q) THEN r = None /\ q = None
  ELSE /\ Get(r).type = Get(q).type
       /\ IF Get(r).type = "weekly"
            THEN {Get(r).weekdays[k] : k \in 1..Len(Get(r).weekdays)}
                   = {Get(q).weekdays[k] : k \in 1..Len(Get(q).weekdays)}
            ELSE Get(r).dayOfMonth = Get(q).dayOfMonth

\* C1: a todo that has a recurrence rule has, since that rule was set or last
\* changed, generated exactly one sibling if it was completed at least once
\* and none otherwise, however often it was completed and reopened; its guard
\* is true exactly when it has generated that sibling.
C1_OneSiblingPerRule ==
  \A i \in 1..Len(todos) :
    IsSome(todos[i].recurrence) =>
      /\ history[i].generated = (IF history[i].completions > 0 THEN 1 ELSE 0)
      /\ (todos[i].hasGeneratedNextOccurrence = Some(TRUE)) <=> (history[i].generated = 1)

\* a recurring todo completed, reopened and completed again, one sibling generated
C1_Witness ==
  \E i \in 1..Len(todos) :
    /\ IsSome(todos[i].recurrence)
    /\ todos[i].completed
    /\ history[i].completions >= 2
    /\ history[i].generated = 1

\* C2: POST /todos/:id/recurrence on a known todo clears the guard when the
\* new rule is absent, resets it to false when the new rule differs by value
\* from the old one, and keeps it as it was when the two are equal by value.
C2_GuardAfterSetRecurrence ==
  [][(last'.op = "recurrence" /\ Known(todos, last'.id)) =>
       LET i == FindIndex(todos, last'.id)
           old == todos[i].recurrence
           new == todos'[i].recurrence
           guard == todos'[i].hasGeneratedNextOccurrence
       IN /\ Len(todos') = Len(todos)
          /\ IF ~IsSome(new) THEN guard = None
             ELSE IF ~SameRule(old, new) THEN guard = Some(FALSE)
             ELSE guard = todos[i].hasGeneratedNextOccurrence]_vars

\* the rule of a todo whose guard is true was set again to the same value,
\* and the guard is still true
C2_Witness ==
  /\ last.op = "recurrence"
  /\ \E i \in 1..Len(todos) :
       /\ i = FindIndex(todos, last.id)
       /\ IsSome(todos[i].recurrence)
       /\ todos[i].hasGeneratedNextOccurrence = Some(TRUE)

\* C3: every todo of the collection has completedAt set if and only if it is
\* completed.
C3_CompletedAtIffCompleted ==
  \A i \in 1..Len(todos) : IsSome(todos[i].completedAt) <=> todos[i].completed

\* a seed todo that was completed is open, and one that was open is completed
C3_Witness ==
  \E i, j \in 1..Len(todos) :
    /\ todos[i].id = SeedId(3) /\ ~todos[i].completed
    /\ todos[j].id = SeedId(1) /\ todos[j].completed

\* C7: a handler called with an id no todo has leaves the collection as it
\* is, raises nothing and does not call notifyTodosChanged.
C7_UnknownIdIsNoOp ==
  [][(last'.op \in IdHandlers /\ ~Known(todos, last'.id)) =>
       /\ todos' = todos
       /\ last'.notifyCalls = 0
       /\ last'.notified = <<>>
       /\ ~last'.raised]_vars

\* a handler was called with an unknown id while a listener was subscribed
C7_Witness ==
  /\ last.op = "delete"
  /\ ~Known(todos, last.id)
  /\ Len(todosChangedListeners) > 0
  /\ last.notified = <<>>

\* the times the listener occurs in the sequence of invocations
Invocations(listener, invoked) ==
  Cardinality({k \in 1..Len(invoked) : invoked[k] = listener})

\* the last call was a handler that changed the collection
Mutated == last.op \in IdHandlers \cup {"create"} /\ last.found

\* C8: a call that changes the collection invokes each subscribed listener
\* exactly once.
C8_EachListenerOnce ==
  Mutated =>
    \A i \in 1..Len(todosChangedListeners) :
      Invocations(todosChangedListeners[i], last.notified) = 1

\* C9: a listener that throws does not fail the call that notified it, and
\* the listeners after it are still invoked.
C9_ThrowingListenerContained ==
  Mutated =>
    /\ ~last.raised
    /\ \A i \in 1..Len(todosChangedListeners) :
         Invocations(todosChangedListeners[i], last.notified) >= 1

\* the title is empty once trimmed
Blank(title) == \A k \in 1..Len(title) : title[k] \in Whitespace

\* what POST /todos leaves for the form, the today flag of the new todo
\* being isToday
CreatePost(form, isToday) ==
  IF Blank(form.title)
    THEN todos' = todos /\ last'.notifyCalls = 0 /\ last'.notified = <<>>
    ELSE /\ Len(todos') = Len(todos) + 1
         /\ SubSeq(todos', 1, Len(todos)) = todos
         /\ last'.notifyCalls = 1
         /\ LET new == todos'[Len(todos')]
            IN /\ ~new.completed
               /\ new.completedAt = None
               /\ new.hasGeneratedNextOccurrence = Some(FALSE)
               /\ new.dueDate = form.dueDate
               /\ new.recurrence = buildRecurrenceSetting(recurrenceFormSchema(form.recurrence))
               /\ new.isToday = isToday
               /\ new.memo = (IF form.memo = <<>> THEN None ELSE Some(form.memo))

GeneratesSibling == last'.op = "toggle" /\ Len(todos') = Len(todos) + 1

\* C11: when completing a todo generates a sibling, the sibling has the
\* parent's title, recurrence rule and memo, is open with no completedAt, is
\* not pinned to today, has guard false, has the resolver's result as its due
\* date and an id other than the parent's, and the parent's guard is true.
C11_SiblingOfParent ==
  [][GeneratesSibling =>
       LET i == FindIndex(todos, last'.id)
           parent == todos[i]
           sibling == todos'[Len(todos')]
       IN /\ sibling.title = parent.title
          /\ sibling.recurrence = parent.recurrence
          /\ sibling.memo = parent.memo
          /\ ~sibling.completed
          /\ sibling.completedAt = None
          /\ ~sibling.isToday
          /\ sibling.hasGeneratedNextOccurrence = Some(FALSE)
          /\ sibling.dueDate =
               calculateNextDueDateFromRecurrence(Get(parent.recurrence),
                                                  recurrenceBaseDate(parent))
          /\ sibling.id # parent.id
          /\ todos'[i].hasGeneratedNextOccurrence = Some(TRUE)]_vars

\* the step is a call of POST /todos/:id/toggle on a completed todo
Reopens ==
  /\ last'.op = "toggle"
  /\ Known(todos, last'.id)
  /\ todos[FindIndex(todos, last'.id)].completed

\* C12: POST /todos/:id/toggle on a completed todo leaves it open with no
\* completedAt and changes nothing else: the collection has the same todos in
\* the same places, a sibling generated before included, and the todo keeps
\* its guard, recurrence, due date, today flag, title and memo.
C12_ReopenFrame ==
  [][Reopens =>
       LET i == FindIndex(todos, last'.id)
       IN /\ Len(todos') = Len(todos)
          /\ \A j \in 1..Len(todos) : j # i => todos'[j] = todos[j]
          /\ ~todos'[i].completed
          /\ todos'[i].completedAt = None
          /\ todos'[i].id = todos[i].id
          /\ todos'[i].createdAt = todos[i].createdAt
          /\ todos'[i].hasGeneratedNextOccurrence = todos[i].hasGeneratedNextOccurrence
          /\ todos'[i].recurrence = todos[i].recurrence
          /\ todos'[i].dueDate = todos[i].dueDate
          /\ todos'[i].isToday = todos[i].isToday
          /\ todos'[i].title = todos[i].title
          /\ todos'[i].memo = todos[i].memo]_vars

\* a todo that generated its sibling was reopened: its guard is still true
\* and the sibling is still the last todo of the collection
C12_Witness ==
  /\ last.op = "toggle"
  /\ \E i \in 1..Len(todos) :
       /\ i = FindIndex(todos, last.id)
       /\ ~todos[i].completed
       /\ todos[i].hasGeneratedNextOccurrence = Some(TRUE)
       /\ history[i].generated = 1
       /\ Len(todos) = Len(SeedTodos) + 1
       /\ todos[Len(todos)].title = todos[i].title
       /\ todos[Len(todos)].recurrence = todos[i].recurrence

\* C13: the due date of a generated sibling is the resolver's result for the
\* parent's rule and the parent's due date when it has one, else the calendar
\* date of the parent's creation instant, whatever the instant of completion.
C13_SiblingDueDateBase ==
  [][GeneratesSibling =>
       LET parent == todos[FindIndex(todos, last'.id)]
           base == IF parent.dueDate # None THEN parent.dueDate[1]
                   ELSE ToPlainDate(parent.createdAt)
       IN todos'[Len(todos')].dueDate =
            calculateNextDueDateFromRecurrence(Get(parent.recurrence), base)]_vars

\* a todo with a due date generated its sibling on a day that is neither its
\* due date nor the day it was created on
C13_Witness ==
  /\ last.op = "toggle"
  /\ \E i \in 1..Len(todos) :
       /\ i = FindIndex(todos, last.id)
       /\ todos[i].completedAt = Some(clock)
       /\ history[i].completions = 1
       /\ history[i].generated = 1
       /\ IsSome(todos[i].dueDate)
       /\ ToPlainDate(clock) # Get(todos[i].dueDate)
       /\ ToPlainDate(clock) # ToPlainDate(todos[i].createdAt)
       /\ todos[Len(todos)].createdAt = clock
       /\ IsSome(todos[Len(todos)].dueDate)

\* the ids of the todos, in order
IdsOf(items) == [k \in 1..Len(items) |-> items[k].id]

\* C23: after any calls of the handlers no two todos of the collection have
\* the same id, and no call changes the id of a todo: the ids after a call
\* are those before it, less the one of a todo deleted, plus those of the
\* todos appended.
C23_IdsUniqueAndFixed ==
  [][/\ \A i, j \in 1..Len(todos') : i # j => todos'[i].id # todos'[j].id
     /\ IF Len(todos') < Len(todos)
          THEN \E k \in 1..Len(todos) : IdsOf(todos') = RemoveAt(IdsOf(todos), k)
          ELSE SubSeq(IdsOf(todos'), 1, Len(todos)) = IdsOf(todos)]_vars

\* the step is a call of the handler op on a todo of the collection
Acts(op) == last'.op = op /\ Known(todos, last'.id)

\* C24: a generated sibling and its parent are independent, as any two todos
\* are: deleting a todo leaves every other todo in the collection as it is,
\* a toggle or recurrence call on a todo leaves every other todo as it is,
\* and completing a todo whose guard is true appends nothing and leaves the
\* guard true, also when its sibling has been deleted.
C24_SiblingIndependent ==
  [][LET i == FindIndex(todos, last'.id)
     IN /\ Acts("delete") => todos' = SubSeq(todos, 1, i - 1) \o SubSeq(todos, i + 1, Len(todos))
        /\ (Acts("toggle") \/ Acts("recurrence")) =>
             \A j \in 1..Len(todos) : j # i => todos'[j] = todos[j]
        /\ (/\ Acts("toggle")
            /\ ~todos[i].completed
            /\ todos[i].hasGeneratedNextOccurrence = Some(TRUE)) =>
             /\ Len(todos') = Len(todos)
             /\ todos'[i].hasGeneratedNextOccurrence = Some(TRUE)]_vars

\* a todo generated its sibling, the sibling was deleted, and the todo was
\* reopened and completed again: no todo was appended
C24_Witness ==
  /\ last.op = "toggle"
  /\ Len(todos) = Len(SeedTodos)
  /\ \E i \in 1..Len(todos) :
       /\ i = FindIndex(todos, last.id)
       /\ todos[i].completed
       /\ todos[i].hasGeneratedNextOccurrence = Some(TRUE)
       /\ history[i].generated = 1
       /\ history[i].completions = 2

\* C25: a todo whose guard is true has a recurrence rule.
C25_GuardNeedsRule ==
  \A i \in 1..Len(todos) :
    todos[i].hasGeneratedNextOccurrence = Some(TRUE) => IsSome(todos[i].recurrence)

\* the due date of a todo whose guard is true was set
C25_Witness ==
  /\ last.op = "due"
  /\ \E i \in 1..Len(todos) :
       /\ i = FindIndex(todos, last.id)
       /\ todos[i].hasGeneratedNextOccurrence = Some(TRUE)
       /\ IsSome(todos[i].recurrence)

\* the rule is a weekly one of weekdays in 0..6, at least one, ascending
\* without repeats, or a monthly one of a day in 1..31, or there is none
CanonicalRule(recurrence) ==
  \/ recurrence = None
  \/ /\ Get(recurrence).type = "weekly"
     /\ Len(Get(recurrence).weekdays) > 0
     /\ \A k \in 1..Len(Get(recurrence).weekdays) : Get(recurrence).weekdays[k] \in 0..6
     /\ \A k \in 1..(Len(Get(recurrence).weekdays) - 1) :
          Get(recurrence).weekdays[k] < Get(recurrence).weekdays[k + 1]
  \/ /\ Get(recurrence).type = "monthly"
     /\ Get(recurrence).dayOfMonth \in 1..31

\* the submitted form names no rule: no type, a weekly one without a weekday
\* in 0..6, or a monthly one without a day in 1..31
NamesNoRule(form) ==
  \/ form.recurrenceType = "none"
  \/ /\ form.recurrenceType = "weekly"
     /\ \A k \in 1..Len(form.weeklyWeekdays) : form.weeklyWeekdays[k] \notin 0..6
  \/ /\ form.recurrenceType = "monthly"
     /\ \A k \in 1..Len(form.monthlyDay) : form.monthlyDay[k] \notin 1..31

\* C26: every rule stored on a todo, generated siblings included, is a weekly
\* rule of weekdays in 0..6, at least one, ascending without repeats, or a
\* monthly rule of a day in 1..31; POST /todos and POST /todos/:id/recurrence
\* store no rule for a form that names none.
C26_StoredRulesCanonical ==
  [][/\ \A i \in 1..Len(todos') : CanonicalRule(todos'[i].recurrence)
     /\ \A form \in CreateForms, random \in RandomSuffixes :
          (Create(form, random) /\ CreateAccepts(form) /\ NamesNoRule(form.recurrence)) =>
            todos'[Len(todos')].recurrence = None
     /\ \A id \in Ids, form \in RecurrenceForms :
          (SetRecurrence(id, form) /\ Known(todos, id) /\ NamesNoRule(form)) =>
            todos'[FindIndex(todos, id)].recurrence = None]_vars

\* a todo was given the weekly rule of Monday and Wednesday, submitted out of
\* order or twice, and generated a sibling of the same rule
C26_Witness ==
  /\ last.op = "toggle"
  /\ Len(todos) = Len(SeedTodos) + 1
  /\ todos[Len(todos)].recurrence = Some(Weekly(<<1, 3>>))
  /\ \E i \in 1..Len(SeedTodos) :
       /\ i = FindIndex(todos, last.id)
       /\ todos[i].recurrence = Some(Weekly(<<1, 3>>))
       /\ history[i].generated = 1

C28_ListenersSeeAppliedChange ==
  [][last'.notified # <<>> =>
       /\ last'.observed = todos'
       /\ GeneratesSibling =>
            LET i == FindIndex(todos, last'.id)
                seen == last'.observed
            IN /\ Len(seen) = Len(todos) + 1
               /\ seen[i].completed
               /\ seen[i].completedAt = Some(clock)
               /\ seen[i].hasGeneratedNextOccurrence = Some(TRUE)
               /\ seen[Len(seen)].title = todos[i].title
               /\ seen[Len(seen)].recurrence = todos[i].recurrence
               /\ ~seen[Len(seen)].completed]_vars

\* a listener ran for a completion that generated a sibling
C28_Witness ==
  /\ last.op = "toggle"
  /\ last.notified # <<>>
  /\ Len(last.observed) = Len(SeedTodos) + 1
  /\ \E i \in 1..Len(SeedTodos) :
       /\ i = FindIndex(todos, last.id)
       /\ history[i].generated = 1
       /\ last.observed[i].hasGeneratedNextOccurrence = Some(TRUE)

\* C29: a recurrence call that sets a rule on a todo that had none, or had
\* another one, leaves the guard false, whether or not the todo generated a
\* sibling before; and completing a todo that has a rule with weekdays or a
\* monthly rule and whose guard is not true generates a sibling.  So a rule
\* removed and set again, or changed and changed back, generates again.
C29_RuleSetAgainGeneratesAgain ==
  [][LET i == FindIndex(todos, last'.id)
     IN /\ (/\ Acts("recurrence")
            /\ todos'[i].recurrence # None
            /\ ~SameRule(todos[i].recurrence, todos'[i].recurrence)) =>
             todos'[i].hasGeneratedNextOccurrence = Some(FALSE)
        /\ (/\ Acts("toggle")
            /\ ~todos[i].completed
            /\ todos[i].recurrence # None
            /\ todos[i].hasGeneratedNextOccurrence # Some(TRUE)) =>
             /\ Len(todos') = Len(todos) + 1
             /\ todos'[i].hasGeneratedNextOccurrence = Some(TRUE)
             /\ todos'[Len(todos')].recurrence = todos[i].recurrence]_vars

\* a seed todo has two siblings of its rule and of the same due date: it
\* generated one, lost or changed its rule, got the rule again and
\* generated the second
C29_Witness ==
  /\ last.op = "toggle"
  /\ Len(todos) = Len(SeedTodos) + 2
  /\ \E i \in 1..Len(SeedTodos) :
       /\ i = FindIndex(todos, last.id)
       /\ todos[i].completed
       /\ history[i].generated = 1
       /\ todos[i].hasGeneratedNextOccurrence = Some(TRUE)
       /\ \A j \in {Len(todos) - 1, Len(todos)} :
            /\ todos[j].recurrence = todos[i].recurrence
            /\ todos[j].title = todos[i].title
            /\ todos[j].dueDate = todos[Len(todos)].dueDate
            /\ ~todos[j].completed

(***************************************************************************)
(* The lists of the page and the payload of the tray menu.                 *)
(***************************************************************************)
RECURSIVE InsertStable(_, _, _)
\* the index k put into the sorted indices s: before the first one it
\* compares less than, hence after those it compares equal to
InsertStable(k, s, compare) ==
  IF s = <<>> THEN <<k>>
  ELSE IF compare[k][Head(s)] < 0 THEN <<k>> \o s
  ELSE <<Head(s)>> \o InsertStable(k, Tail(s), compare)

RECURSIVE SortedIndices(_, _)
\* the indices 1..n in sorted order, taken in input order
SortedIndices(n, compare) ==
  IF n = 0 THEN <<>> ELSE InsertStable(n, SortedIndices(n - 1, compare), compare)

\* Array.prototype.sort(comparefn), which is stable; compare[i][j] is what
\* comparefn returns for the i-th and the j-th element
ArraySort(items, compare) ==
  LET order == SortedIndices(Len(items), compare)
  IN [p \in 1..Len(items) |-> items[order[p]]]

\* Temporal.Instant.compare
CompareInstant(a, b) == IF a < b THEN -1 ELSE IF a > b THEN 1 ELSE 0

\* toDueTimestamp returning 0 for no due date
toDueTimestamp_ZeroWhenAbsent(value) ==
  IF ~IsSome(value) THEN Some(0) ELSE Some(ToEpochDays(Get(value)))

\* toDueTimestamp: Date.parse of the date, which is midnight UTC of that day,
\* counted in days since 1970-01-01; <<>> is Number.POSITIVE_INFINITY
toDueTimestamp(value) ==
  IF ~IsSome(value) THEN None ELSE Some(ToEpochDays(Get(value)))

\* `toDueTimestamp(a.dueDate) - toDueTimestamp(b.dueDate)` as Array.sort reads
\* it: Infinity - Infinity is NaN, which sort takes as +0
CompareDue(a, b) ==
  LET x == toDueTimestamp(a.dueDate)
      y == toDueTimestamp(b.dueDate)
  IN IF ~IsSome(x) /\ ~IsSome(y) THEN 0
     ELSE IF ~IsSome(x) THEN 1
     ELSE IF ~IsSome(y) THEN -1
     ELSE Get(x) - Get(y)

\* sortTodos: `items` is the array passed as it is after the call, `returned`
\* the array returned, which is the sorted copy `[...items]`
sortTodos(items, sort) ==
  [items |-> items,
   returned |->
     ArraySort(items,
               [i \in 1..Len(items) |-> [j \in 1..Len(items) |->
                  IF sort = "due" THEN CompareDue(items[i], items[j])
                  ELSE CompareInstant(items[i].createdAt, items[j].createdAt)]])]

\* CompareRecent with the two completion instants the other way round
CompareRecent_OldestFirst(a, b) ==
  IF ~IsSome(a.completedAt) /\ ~IsSome(b.completedAt)
    THEN CompareInstant(a.createdAt, b.createdAt)
  ELSE IF ~IsSome(a.completedAt) THEN 1
  ELSE IF ~IsSome(b.completedAt) THEN -1
  ELSE CompareInstant(Get(a.completedAt), Get(b.completedAt))

\* the comparator of sortCompletedTodosByRecent
CompareRecent(a, b) ==
  IF ~IsSome(a.completedAt) /\ ~IsSome(b.completedAt)
    THEN CompareInstant(a.createdAt, b.createdAt)
  ELSE IF ~IsSome(a.completedAt) THEN 1
  ELSE IF ~IsSome(b.completedAt) THEN -1
  ELSE CompareInstant(Get(b.completedAt), Get(a.completedAt))

sortCompletedTodosByRecent(items) ==
  ArraySort(items,
            [i \in 1..Len(items) |-> [j \in 1..Len(items) |->
               CompareRecent(items[i], items[j])]])

\* recurrenceWeekdayLabelMap.get(weekday), <<>> when the map has no such key
recurrenceWeekdayLabel(weekday) ==
  IF weekday \in 0..6
    THEN Some(<<"nichi", "getsu", "ka", "sui", "moku", "kin", "do">>[weekday + 1])
    ELSE None

RECURSIVE Join(_, _)
\* Array.join(separator), as the sequence of the pieces of the text
Join(parts, separator) ==
  IF parts = <<>> THEN <<>>
  ELSE IF Len(parts) = 1 THEN <<parts[1]>>
  ELSE <<parts[1], separator>> \o Join(Tail(parts), separator)

RECURSIVE Flatten(_)
\* the values of a sequence of optional values, those present
Flatten(options) ==
  IF options = <<>> THEN <<>> ELSE Head(options) \o Flatten(Tail(options))

formatRecurrenceLabel(recurrence) ==
  IF ~IsSome(recurrence) THEN None
  ELSE IF Get(recurrence).type = "monthly"
    THEN Some(<<Get(recurrence).dayOfMonth, "nichi">>)
  ELSE LET weekdays == SortAsc(Dedupe(Get(recurrence).weekdays, {}))
           labels == Flatten([k \in 1..Len(weekdays) |->
                                recurrenceWeekdayLabel(weekdays[k])])
       IN IF Len(labels) = 0 THEN None ELSE Some(Join(labels, ","))

\* PlainDate.toString(): the text YYYY-MM-DD, as its three fields
PlainDateToString(date) == <<date.year, date.month, date.day>>

\* getTodayTodosForMenu with the completed todos put first
getTodayTodosForMenu_CompletedFirst(items) ==
  LET todayTodos == SelectSeq(items, LAMBDA todo : todo.isToday)
  IN SelectSeq(todayTodos, LAMBDA todo : todo.completed)
       \o SelectSeq(todayTodos, LAMBDA todo : ~todo.completed)

getTodayTodosForMenu(items) ==
  LET todayTodos == SelectSeq(items, LAMBDA todo : todo.isToday)
  IN SelectSeq(todayTodos, LAMBDA todo : ~todo.completed)
       \o SelectSeq(todayTodos, LAMBDA todo : todo.completed)

\* TodayTaskItem
TodayTaskItem(id, title, completed, dueDateIso, hasRecurrence, recurrenceLabel) ==
  [id |-> id, title |-> title, completed |-> completed, dueDateIso |-> dueDateIso,
   hasRecurrence |-> hasRecurrence, recurrenceLabel |-> recurrenceLabel]

\* buildTodayTasksPayload; updatedAt is the instant of the call
buildTodayTasksPayload(items, instant) ==
  LET todayTodos == getTodayTodosForMenu(items)
  IN [count |-> Len(todayTodos),
      items |-> [k \in 1..Len(todayTodos) |->
                   TodayTaskItem(todayTodos[k].id,
                                 todayTodos[k].title,
                                 todayTodos[k].completed,
                                 IF IsSome(todayTodos[k].dueDate)
                                   THEN Some(PlainDateToString(Get(todayTodos[k].dueDate)))
                                   ELSE None,
                                 IsSome(todayTodos[k].recurrence),
                                 formatRecurrenceLabel(todayTodos[k].recurrence))],
      updatedAt |-> instant]

(***************************************************************************)
(* The model of the tray menu (tray-menu.ts) and the labels of dates       *)
(* (src/src/date-format.ts).  A text is the sequence of its pieces.        *)
(***************************************************************************)
\* formatDueDateLabel looking at the year before the neighbouring days
formatDueDateLabel_YearFirst(value, today) ==
  IF value.year # today.year THEN <<value.year, "/", value.month, "/", value.day>>
  ELSE IF ComparePlainDate(value, AddDays(today, 0 - 1)) = 0 THEN <<"kinou">>
  ELSE IF ComparePlainDate(value, today) = 0 THEN <<"kyou">>
  ELSE IF ComparePlainDate(value, AddDays(today, 1)) = 0 THEN <<"ashita">>
  ELSE <<value.month, "/", value.day>>

\* formatDueDateLabel
formatDueDateLabel(value, today) ==
  IF ComparePlainDate(value, AddDays(today, 0 - 1)) = 0 THEN <<"kinou">>
  ELSE IF ComparePlainDate(value, today) = 0 THEN <<"kyou">>
  ELSE IF ComparePlainDate(value, AddDays(today, 1)) = 0 THEN <<"ashita">>
  ELSE IF value.year = today.year THEN <<value.month, "/", value.day>>
  ELSE <<value.year, "/", value.month, "/", value.day>>

\* Temporal.PlainDate.from(text): the date the text YYYY-MM-DD names, <<>> when
\* it throws because the text names no date
PlainDateFrom(text) ==
  IF /\ Len(text) = 3
     /\ text[2] \in 1..12
     /\ text[3] \in 1..DaysInMonth(text[1], text[2])
    THEN Some(PlainDate(text[1], text[2], text[3]))
    ELSE None

\* formatDueDateIsoForMenu
formatDueDateIsoForMenu(value, today) ==
  IF ~IsSome(value) \/ Get(value) = <<>> THEN None
  ELSE IF ~IsSome(PlainDateFrom(Get(value))) THEN None
  ELSE Some(<<"calendar", " ">> \o formatDueDateLabel(Get(PlainDateFrom(Get(value))), today))

\* the combining mark U+0336
StrikethroughMark == "U+0336"

\* toStrikethroughLabel putting one mark after the whole label
toStrikethroughLabel_OneMark(label) == label \o <<StrikethroughMark>>

\* toStrikethroughLabel, the label being the sequence of its code points
toStrikethroughLabel(label) ==
  [k \in 1..(2 * Len(label)) |->
     IF k % 2 = 1 THEN label[(k + 1) \div 2] ELSE StrikethroughMark]

\* buildTaskSublabel joining the parts by one space
buildTaskSublabel_OneSpace(todo, today) ==
  LET dueLabel == formatDueDateIsoForMenu(todo.dueDateIso, today)
      recurrence ==
        IF IsSome(todo.recurrenceLabel) /\ Get(todo.recurrenceLabel) # <<>>
          THEN Some(<<"repeat", " ">> \o Get(todo.recurrenceLabel))
        ELSE IF todo.hasRecurrence THEN Some(<<"repeat", " ", "kurikaeshi">>)
        ELSE None
      parts == dueLabel \o recurrence
  IN IF parts = <<>> THEN None ELSE Some(Join(parts, " "))

\* buildTaskSublabel: the parts joined by two spaces, <<>> when there is none
buildTaskSublabel(todo, today) ==
  LET dueLabel == formatDueDateIsoForMenu(todo.dueDateIso, today)
      recurrence ==
        IF IsSome(todo.recurrenceLabel) /\ Get(todo.recurrenceLabel) # <<>>
          THEN Some(<<"repeat", " ">> \o Get(todo.recurrenceLabel))
        ELSE IF todo.hasRecurrence THEN Some(<<"repeat", " ", "kurikaeshi">>)
        ELSE None
      parts == dueLabel \o recurrence
  IN IF parts = <<>> THEN None ELSE Some(Join(parts, "  "))

Separator == [kind |-> "separator"]
Entry(kind, label) == [kind |-> kind, label |-> label]

\* the entries every menu ends with
ClosingEntries ==
  << Separator,
     Entry("open", <<"window wo hiraku">>),
     Entry("refresh", <<"sairyomikomi">>),
     Separator,
     Entry("quit", <<"shuuryou">>) >>

\* the menu returned when options.error is set
ErrorEntries == <<Entry("error", <<"shutoku shippai">>)>> \o ClosingEntries

\* AbsentEntries without the entry of the empty state
AbsentEntries_NoEmptyState ==
  <<Entry("summary", <<"kyou no tasuku: ", 0, "ken">>)>> \o ClosingEntries

\* the menu returned when there is no payload
AbsentEntries ==
  << Entry("summary", <<"kyou no tasuku: ", 0, "ken">>),
     Entry("empty", <<"tasuku wa arimasen">>) >> \o ClosingEntries

\* the entry of one item of the payload
TaskEntry(todo, today) ==
  [kind |-> "task",
   todoId |-> todo.id,
   label |-> IF todo.completed THEN toStrikethroughLabel(todo.title) ELSE todo.title,
   completed |-> todo.completed,
   sublabel |-> buildTaskSublabel(todo, today)]

\* ItemEntries without the test for a payload without items
ItemEntries_NoEmptyState(payload, today) ==
  [k \in 1..Len(payload.items) |-> TaskEntry(payload.items[k], today)]

\* itemEntries
ItemEntries(payload, today) ==
  IF Len(payload.items) = 0
    THEN <<Entry("empty", <<"tasuku wa arimasen">>)>>
    ELSE [k \in 1..Len(payload.items) |-> TaskEntry(payload.items[k], today)]

\* buildTrayMenuModel testing the payload before options.error
buildTrayMenuModel_PayloadFirst(payload, options, plainDateISO) ==
  IF ~IsSome(payload) THEN AbsentEntries
  ELSE IF options.error = Some(TRUE) THEN ErrorEntries
  ELSE <<Entry("summary", <<"kyou no tasuku: ", Get(payload).count, "ken">>)>>
         \o ItemEntries(Get(payload),
                        IF IsSome(options.today) THEN Get(options.today) ELSE plainDateISO)
         \o ClosingEntries

\* buildTrayMenuModel; plainDateISO is Temporal.Now.plainDateISO(), the date
\* taken as today when options.today is not given
buildTrayMenuModel(payload, options, plainDateISO) ==
  IF options.error = Some(TRUE) THEN ErrorEntries
  ELSE IF ~IsSome(payload) THEN AbsentEntries
  ELSE <<Entry("summary", <<"kyou no tasuku: ", Get(payload).count, "ken">>)>>
         \o ItemEntries(Get(payload),
                        IF IsSome(options.today) THEN Get(options.today) ELSE plainDateISO)
         \o ClosingEntries

(***************************************************************************)
(* The tray of the desktop shell (src/src/main.ts): every call of          *)
(* rebuildTrayMenu fetches the payload from the server and, when the       *)
(* answer is there, sets the title and the menu of the tray.  Nothing      *)
(* orders the answers of two calls.                                        *)
(***************************************************************************)
\* process.platform
Platforms == {"darwin", "linux"}

\* one item of the template for an entry of the menu model
MenuItem(entry) ==
  IF entry.kind = "separator" THEN [type |-> "separator"]
  ELSE IF entry.kind = "task"
    THEN [type |-> "checkbox", checked |-> entry.completed, label |-> entry.label,
          sublabel |-> entry.sublabel, click |-> <<"focusWindowWithSelectedTodo", entry.todoId>>]
  ELSE IF entry.kind = "open"
    THEN [label |-> entry.label, click |-> <<"focusWindowWithSelectedTodo">>]
  ELSE IF entry.kind = "refresh"
    THEN [label |-> entry.label, click |-> <<"rebuildTrayMenu">>]
  ELSE IF entry.kind = "quit"
    THEN [label |-> entry.label, click |-> <<"quit">>]
  ELSE [label |-> entry.label, enabled |-> FALSE]

toMenuTemplate(model) == [k \in 1..Len(model) |-> MenuItem(model[k])]

\* buildTrayMenuModel called without options
NoOptions == [error |-> None, today |-> None]

\* the title and the menu rebuildTrayMenu sets for a payload, on `today`
TrayOfPayload(payload, today) ==
  [title |-> <<"todaybox", payload.count>>,
   menu |-> toMenuTemplate(buildTrayMenuModel(Some(payload), NoOptions, today))]

\* the title and the menu rebuildTrayMenu sets in its catch branch
TrayOfError ==
  [title |-> <<"todaybox">>,
   menu |-> toMenuTemplate(buildTrayMenuModel(None, [NoOptions EXCEPT !.error = Some(TRUE)],
                                              Now.date))]

\* the tray createTray makes: a title, no menu yet
NewTray == [title |-> <<"todaybox">>, menu |-> <<>>]

InitTray ==
  /\ Loaded
  /\ ops = MaxTrayOps
  /\ pureCall = NoPure
  /\ pureResult = None

\* serve() was called and the listener subscribed
Ready == todosChangedListeners # <<>>

\* the callback of electronApp.whenReady(): serve, createTray (on darwin a
\* tray and its first rebuild), subscribeTodosChanged
WhenReady(platform) ==
  /\ ~Ready
  /\ tray' = IF platform = "darwin" THEN Some(NewTray) ELSE None
  /\ rebuilds' = IF platform = "darwin" THEN <<Fetching>> ELSE <<>>
  /\ todosChangedListeners' = <<"tray">>
  /\ last' = [NoCall EXCEPT !.op = "ready"]
  /\ UNCHANGED <<todos, clock, history, ticks, ops, pure>>

\* 'activate' of the application, or a click on the refresh item of the menu
RebuildRequested ==
  /\ Ready
  /\ Step
  /\ rebuilds' = rebuildTrayMenu(rebuilds)
  /\ last' = [NoCall EXCEPT !.op = "rebuild"]
  /\ UNCHANGED <<todos, todosChangedListeners, clock, history, ticks, tray>>

\* the fetch of a pending rebuild is answered: GET /api/today returns the
\* payload of the collection as it is now, or the fetch fails
AnswerToday(k, ok) ==
  /\ k \in 1..Len(rebuilds)
  /\ rebuilds[k].phase = "fetching"
  /\ rebuilds' = [rebuilds EXCEPT
                    ![k] = IF ok THEN [phase |-> "fetched",
                                       payload |-> Some(buildTodayTasksPayload(todos, clock))]
                                 ELSE [phase |-> "failed", payload |-> None]]
  /\ UNCHANGED <<todos, todosChangedListeners, clock, last, history, ticks, ops, pure, tray>>

\* rebuildTrayMenu resumes after its await: the try branch with the payload,
\* the catch branch when the fetch failed
ApplyRebuild(k) ==
  /\ k \in 1..Len(rebuilds)
  /\ rebuilds[k].phase # "fetching"
  /\ tray' = Some(IF rebuilds[k].phase = "fetched"
                    THEN TrayOfPayload(Get(rebuilds[k].payload), ToPlainDate(clock))
                    ELSE TrayOfError)
  /\ rebuilds' = RemoveAt(rebuilds, k)
  /\ UNCHANGED <<todos, todosChangedListeners, clock, last, history, ticks, ops, pure>>

NextTray ==
  \/ \E platform \in Platforms : WhenReady(platform)
  \/ \E id \in Ids : Ready /\ ToggleToday(id)
  \/ \E id \in Ids, random \in RandomSuffixes : Ready /\ Toggle(id, random)
  \/ \E id \in Ids : Ready /\ Delete(id)
  \/ RebuildRequested
  \/ \E k \in 1..Len(rebuilds), ok \in BOOLEAN : AnswerToday(k, ok)
  \/ \E k \in 1..Len(rebuilds) : ApplyRebuild(k)

SpecTray == InitTray /\ [][NextTray]_vars

\* C30: when there is a tray, no call of rebuildTrayMenu is pending and the
\* tray does not show the menu of a failed fetch, its title and its menu are
\* those of the payload of the collection as it is.
C30_TrayOfFinalState ==
  (IsSome(tray) /\ rebuilds = <<>> /\ Get(tray) # TrayOfError) =>
    Get(tray) = TrayOfPayload(buildTodayTasksPayload(todos, clock), ToPlainDate(clock))

(***************************************************************************)
(* Calls of the exported functions on arguments of the caller's choice.    *)
(***************************************************************************)
RECURSIVE AscendingOf(_)
\* the elements of a set of numbers, ascending
AscendingOf(set) ==
  IF set = {} THEN <<>>
  ELSE LET least == CHOOSE x \in set : \A y \in set : x <= y
       IN <<least>> \o AscendingOf(set \ {least})

\* weekly rules: every set of weekdays, ascending, and some lists that are
\* unordered or repeat a weekday
WeeklyRules ==
  {Weekly(AscendingOf(set)) : set \in SUBSET (0..6)}
    \cup {Weekly(<<3, 1>>), Weekly(<<5, 5>>), Weekly(<<6, 0, 6>>), Weekly(<<4, 2, 0, 2>>)}

MonthlyRules == {Monthly(day) : day \in 1..31}

FirstBaseDate == PlainDate(2026, 1, 25)

\* base dates: a run of days over three month ends, and month ends of leap
\* years, of a century year and of December
BaseDates ==
  {AddDays(FirstBaseDate, n) : n \in 0..MaxBaseDays}
    \cup { PlainDate(2024, 1, 30), PlainDate(2024, 1, 31), PlainDate(2024, 2, 29),
           PlainDate(2028, 2, 28), PlainDate(2026, 12, 1), PlainDate(2026, 12, 31),
           PlainDate(2027, 11, 30), PlainDate(2100, 1, 31), PlainDate(2100, 2, 28),
           PlainDate(2000, 1, 31) }

CalculateCalls ==
  [fn : {"calculateNextDueDateFromRecurrence"},
   recurrence : WeeklyRules \cup MonthlyRules,
   baseDate : BaseDates]

\* todos handed to completeTodoAndMaybeGenerateNext
CompleteTodos ==
  { Todo(<<7, 7>>, <<"t">>, FALSE, 0 - 60, None, recurrence, guard, dueDate, TRUE, Some(<<"m">>)) :
      recurrence \in {None, Some(Weekly(<<>>)), Some(Weekly(<<1>>)), Some(Monthly(31))},
      guard \in {None, Some(FALSE), Some(TRUE)},
      dueDate \in DueDates }

CompleteCalls ==
  [fn : {"completeTodoAndMaybeGenerateNext"},
   todo : CompleteTodos,
   completedAt : {0, TickMinutes},
   baseDate : {PlainDate(2026, 2, 16), PlainDate(2026, 3, 31)},
   id : {<<8, 8>>},
   createdAt : {TickMinutes}]

\* the lists of at most MaxItems todos, each one of shapes, the k-th of id <<9, k>>
ListsOf(shapes) ==
  UNION {{[k \in 1..n |-> [list[k] EXCEPT !.id = <<9, k>>]] : list \in [1..n -> shapes]} :
           n \in 0..MaxItems}

\* todos handed to sortTodos
SortShapes ==
  { Todo(<<9, 0>>, <<"t">>, FALSE, createdAt, None, None, None, dueDate, FALSE, None) :
      createdAt \in {0 - 60, 0},
      dueDate \in {None, Some(PlainDate(2025, 12, 31)), Some(PlainDate(2026, 1, 31)),
                   Some(PlainDate(2026, 2, 1))} }

SortCalls == [fn : {"sortTodos"}, items : ListsOf(SortShapes), sort : {"created", "due"}]

\* todos handed to sortCompletedTodosByRecent
RecentShapes ==
  { Todo(<<9, 0>>, <<"t">>, TRUE, createdAt, completedAt, None, None, None, FALSE, None) :
      createdAt \in {1, 2},
      completedAt \in {None, Some(1000), Some(3000)} }

RecentCalls == [fn : {"sortCompletedTodosByRecent"}, items : ListsOf(RecentShapes)]

\* todos handed to buildTodayTasksPayload
TodayShapes ==
  { Todo(<<9, 0>>, <<"a">>, FALSE, 0, None, None, None, None, TRUE, None),
    Todo(<<9, 0>>, <<"b">>, FALSE, 0, None, Some(Weekly(<<3, 1, 3>>)), Some(FALSE),
         Some(PlainDate(2026, 2, 17)), TRUE, None),
    Todo(<<9, 0>>, <<"c">>, FALSE, 0, None, Some(Weekly(<<>>)), Some(FALSE),
         Some(PlainDate(2026, 1, 31)), TRUE, Some(<<"m">>)),
    Todo(<<9, 0>>, <<"d">>, TRUE, 0, Some(30), None, None,
         Some(PlainDate(2026, 2, 16)), TRUE, None),
    Todo(<<9, 0>>, <<"e">>, TRUE, 0, Some(60), Some(Monthly(15)), Some(TRUE),
         None, TRUE, None),
    Todo(<<9, 0>>, <<"f">>, FALSE, 0, None, None, None,
         Some(PlainDate(2026, 1, 31)), FALSE, None),
    Todo(<<9, 0>>, <<"g">>, TRUE, 0, Some(90), Some(Weekly(<<0>>)), Some(FALSE),
         None, FALSE, None) }

PayloadCalls == [fn : {"buildTodayTasksPayload"}, items : ListsOf(TodayShapes)]

\* items of the payloads handed to buildTrayMenuModel
ItemShapes ==
  { TodayTaskItem(<<9, 0>>, <<"a">>, FALSE, None, FALSE, None),
    TodayTaskItem(<<9, 0>>, <<"a">>, TRUE, None, FALSE, None),
    TodayTaskItem(<<9, 0>>, <<"a", "b">>, FALSE, Some(<<2026, 2, 16>>), TRUE,
                  Some(<<"getsu", ",", "sui">>)),
    TodayTaskItem(<<9, 0>>, <<"a", "b">>, TRUE, Some(<<2026, 2, 17>>), TRUE, None),
    TodayTaskItem(<<9, 0>>, <<"c", StrikethroughMark>>, TRUE, Some(<<2026, 2, 30>>), FALSE, None),
    TodayTaskItem(<<9, 0>>, <<>>, TRUE, Some(<<2025, 12, 31>>), FALSE, Some(<<15, "nichi">>)),
    TodayTaskItem(<<9, 0>>, <<"a">>, FALSE, Some(<<>>), TRUE, Some(<<>>)),
    TodayTaskItem(<<9, 0>>, <<"b">>, FALSE, Some(<<2026, 3, 1>>), FALSE, None) }

\* the payloads: count is the number of items, or some other number
Payloads ==
  UNION {{[count |-> count, items |-> items, updatedAt |-> 0] : count \in {Len(items), 7}} :
           items \in ListsOf(ItemShapes)}

TrayOptions == [error : {None, Some(FALSE), Some(TRUE)},
                today : {None, Some(PlainDate(2026, 2, 17))}]

TrayCalls ==
  [fn : {"buildTrayMenuModel"},
   payload : {None} \cup {Some(payload) : payload \in Payloads},
   options : TrayOptions]

\* the dates formatDueDateLabel is called with as today
LabelTodays ==
  { PlainDate(2026, 2, 11), PlainDate(2026, 1, 1), PlainDate(2026, 12, 31),
    PlainDate(2024, 2, 29), PlainDate(2025, 3, 1), PlainDate(2026, 7, 31) }

\* the days from today to the date to label
LabelOffsets == (0 - 3)..3 \cup {0 - 366, 0 - 365, 0 - 31, 0 - 28, 28, 31, 295, 365, 366}

LabelCalls ==
  {[fn |-> "formatDueDateLabel", value |-> AddDays(today, days), today |-> today] :
     today \in LabelTodays, days \in LabelOffsets}

InitCalls ==
  /\ Loaded
  /\ ops = 0
  /\ pureCall \in CalculateCalls \cup CompleteCalls \cup SortCalls \cup RecentCalls
                    \cup PayloadCalls \cup TrayCalls \cup LabelCalls
  /\ pureResult = None

Returns(value) ==
  /\ pureResult = None
  /\ pureResult' = Some(value)
  /\ UNCHANGED <<todos, todosChangedListeners, clock, last, history, ops, ticks, pureCall,
                  tray, rebuilds>>

CallCalculateNext ==
  /\ pureCall.fn = "calculateNextDueDateFromRecurrence"
  /\ Returns(calculateNextDueDateFromRecurrence(pureCall.recurrence, pureCall.baseDate))

CallCompleteTodo ==
  /\ pureCall.fn = "completeTodoAndMaybeGenerateNext"
  /\ Returns(completeTodoAndMaybeGenerateNext(pureCall.todo, pureCall.completedAt,
                                              pureCall.baseDate, pureCall.id,
                                              pureCall.createdAt))

CallSortTodos ==
  /\ pureCall.fn = "sortTodos"
  /\ Returns(sortTodos(pureCall.items, pureCall.sort))

CallSortCompleted ==
  /\ pureCall.fn = "sortCompletedTodosByRecent"
  /\ Returns(sortCompletedTodosByRecent(pureCall.items))

CallBuildPayload ==
  /\ pureCall.fn = "buildTodayTasksPayload"
  /\ Returns(buildTodayTasksPayload(pureCall.items, clock))

CallBuildTrayMenu ==
  /\ pureCall.fn = "buildTrayMenuModel"
  /\ Returns(buildTrayMenuModel(pureCall.payload, pureCall.options, ToPlainDate(clock)))

CallFormatDueDateLabel ==
  /\ pureCall.fn = "formatDueDateLabel"
  /\ Returns(formatDueDateLabel(pureCall.value, pureCall.today))

NextCalls ==
  \/ CallFormatDueDateLabel
  \/ CallCalculateNext
  \/ CallCompleteTodo
  \/ CallSortTodos
  \/ CallSortCompleted
  \/ CallBuildPayload
  \/ CallBuildTrayMenu

SpecCalls == InitCalls /\ [][NextCalls]_vars

\* the function fn has returned
Returned(fn) == pureCall.fn = fn /\ IsSome(pureResult)

\* the weekday of the date, Sunday = 0 .. Saturday = 6
WeekdayOf(date) == DayOfWeek(date) % 7

\* a date of the calendar
ValidDate(date) ==
  /\ date.month \in 1..12
  /\ date.day \in 1..DaysInMonth(date.year, date.month)

\* C4: for a weekly rule with weekdays and a base date D the resolver returns
\* the earliest date after D whose weekday is one of them: 1 to 7 days after
\* D, and D + 7 days when D's weekday is the only one.
C4_WeeklyNext ==
  (/\ Returned("calculateNextDueDateFromRecurrence")
   /\ pureCall.recurrence.type = "weekly"
   /\ pureCall.recurrence.weekdays # <<>>) =>
    LET base == pureCall.baseDate
        weekdays == {pureCall.recurrence.weekdays[k] :
                       k \in 1..Len(pureCall.recurrence.weekdays)}
        next == Get(pureResult)
        days == ToEpochDays(Get(next)) - ToEpochDays(base)
    IN /\ IsSome(next)
       /\ ValidDate(Get(next))
       /\ days \in 1..7
       /\ WeekdayOf(Get(next)) \in weekdays
       /\ \A k \in 1..(days - 1) : WeekdayOf(AddDays(base, k)) \notin weekdays
       /\ weekdays = {WeekdayOf(base)} => days = 7

\* the rule has the one weekday of the base date, a Monday: a week later
C4_Witness ==
  /\ Returned("calculateNextDueDateFromRecurrence")
  /\ pureCall.recurrence = Weekly(<<1>>)
  /\ pureCall.baseDate = PlainDate(2026, 2, 16)
  /\ pureResult = Some(Some(PlainDate(2026, 2, 23)))

\* the months from year 0 to the month of the date
MonthIndex(date) == date.year * 12 + date.month

\* C5: for a monthly rule and a base date D the resolver returns a date of
\* the calendar after D, in D's month or the next one, whose day is the
\* rule's day or the last day of that month if the month is shorter; day 31
\* from 2026-03-31 gives 2026-04-30.
C5_MonthlyNext ==
  (/\ Returned("calculateNextDueDateFromRecurrence")
   /\ pureCall.recurrence.type = "monthly") =>
    LET base == pureCall.baseDate
        dayOfMonth == pureCall.recurrence.dayOfMonth
        next == Get(pureResult)
        length == DaysInMonth(Get(next).year, Get(next).month)
    IN /\ IsSome(next)
       /\ ValidDate(Get(next))
       /\ ToEpochDays(Get(next)) > ToEpochDays(base)
       /\ MonthIndex(Get(next)) - MonthIndex(base) \in {0, 1}
       /\ Get(next).day = (IF dayOfMonth < length THEN dayOfMonth ELSE length)
       /\ (dayOfMonth = 31 /\ base = PlainDate(2026, 3, 31)) =>
            Get(next) = PlainDate(2026, 4, 30)

\* day 31 from the 31st of January: the last day of February
C5_Witness ==
  /\ Returned("calculateNextDueDateFromRecurrence")
  /\ pureCall.recurrence = Monthly(31)
  /\ pureCall.baseDate = PlainDate(2026, 1, 31)
  /\ pureResult = Some(Some(PlainDate(2026, 2, 28)))

\* C6: the resolver returns nothing for a weekly rule without weekdays, and
\* completing a todo of such a rule whose guard is not true marks it
\* completed, generates no sibling and leaves the guard as it was.
C6_EmptyWeekly ==
  /\ (/\ Returned("calculateNextDueDateFromRecurrence")
      /\ pureCall.recurrence = Weekly(<<>>)) =>
       Get(pureResult) = None
  /\ (/\ Returned("completeTodoAndMaybeGenerateNext")
      /\ pureCall.todo.recurrence = Some(Weekly(<<>>))
      /\ pureCall.todo.hasGeneratedNextOccurrence # Some(TRUE)) =>
       /\ Get(pureResult).nextTodo = None
       /\ Get(pureResult).todo.completed
       /\ Get(pureResult).todo.completedAt = Some(pureCall.completedAt)
       /\ Get(pureResult).todo.hasGeneratedNextOccurrence
            = pureCall.todo.hasGeneratedNextOccurrence

\* a todo of a weekly rule without weekdays and of guard false was completed
C6_Witness ==
  /\ Returned("completeTodoAndMaybeGenerateNext")
  /\ pureCall.todo.recurrence = Some(Weekly(<<>>))
  /\ pureCall.todo.hasGeneratedNextOccurrence = Some(FALSE)
  /\ Get(pureResult).todo.completed
  /\ Get(pureResult).todo.hasGeneratedNextOccurrence = Some(FALSE)

\* the place of the todo of that id in the list
PlaceOf(items, id) == CHOOSE k \in 1..Len(items) : items[k].id = id

\* sorted holds the todos of items and no others, each once (the ids of
\* items are distinct)
IsPermutation(sorted, items) ==
  /\ Len(sorted) = Len(items)
  /\ \A k \in 1..Len(items) : \E p \in 1..Len(sorted) : sorted[p] = items[k]

\* C14: sortTodos(items, 'due') returns a permutation of items, ascending by
\* due date, the todos without a due date after all those with one, todos of
\* equal due date and the todos without one in their input order; items is
\* left as it was.
C14_SortByDue ==
  (Returned("sortTodos") /\ pureCall.sort = "due") =>
    LET items == pureCall.items
        sorted == Get(pureResult).returned
    IN /\ IsPermutation(sorted, items)
       /\ \A p, q \in 1..Len(sorted) :
            p < q =>
              LET a == sorted[p]
                  b == sorted[q]
              IN /\ a.dueDate = None => b.dueDate = None
                 /\ (a.dueDate # None /\ b.dueDate # None) =>
                      ComparePlainDate(Get(a.dueDate), Get(b.dueDate)) <= 0
                 /\ a.dueDate = b.dueDate =>
                      PlaceOf(items, a.id) < PlaceOf(items, b.id)
       /\ Get(pureResult).items = items

\* a todo without a due date before two of equal due date: these two come
\* first, in their input order
C14_Witness ==
  /\ Returned("sortTodos")
  /\ pureCall.sort = "due"
  /\ Len(pureCall.items) = 3
  /\ pureCall.items[1].dueDate = None
  /\ pureCall.items[2].dueDate = Some(PlainDate(2026, 1, 31))
  /\ pureCall.items[3].dueDate = Some(PlainDate(2026, 1, 31))
  /\ pureCall.items[2].createdAt > pureCall.items[3].createdAt
  /\ Get(pureResult).returned = <<pureCall.items[2], pureCall.items[3], pureCall.items[1]>>

\* what sortCompletedTodosByRecent returns: a permutation of the input, by
\* completion instant descending, the todos without one last; two todos
\* without one are in the order InOrder(a, b, items) says
RecentOrder(InOrder(_, _, _)) ==
  Returned("sortCompletedTodosByRecent") =>
    LET items == pureCall.items
        sorted == Get(pureResult)
    IN /\ IsPermutation(sorted, items)
       /\ \A p, q \in 1..Len(sorted) :
            p < q =>
              LET a == sorted[p]
                  b == sorted[q]
              IN /\ a.completedAt = None => b.completedAt = None
                 /\ (a.completedAt # None /\ b.completedAt # None) =>
                      Get(a.completedAt) >= Get(b.completedAt)
                 /\ (a.completedAt = None /\ b.completedAt = None) =>
                      InOrder(a, b, items)

\* a comes before b in items
InputOrder(a, b, items) == PlaceOf(items, a.id) < PlaceOf(items, b.id)

\* a was created before b, or at the same instant and comes before b in items
CreationOrder(a, b, items) ==
  \/ a.createdAt < b.createdAt
  \/ a.createdAt = b.createdAt /\ InputOrder(a, b, items)

\* C15 as stated: sortCompletedTodosByRecent returns a permutation of its
\* input by completion instant descending, the todos without one last and
\* in their input order.
C15_UndatedInInputOrder == RecentOrder(InputOrder)

\* C15: as C15_UndatedInInputOrder, the todos without a completion instant
\* being in the order of their creation instants, and in their input order
\* when these are equal.
C15_SortCompletedByRecent == RecentOrder(CreationOrder)

\* two todos without a completion instant, the later created one first in the
\* input, and a completed one: returned completed first, then by creation
C15_Witness ==
  /\ Returned("sortCompletedTodosByRecent")
  /\ Len(pureCall.items) = 3
  /\ pureCall.items[1].completedAt = None
  /\ pureCall.items[2].completedAt = None
  /\ pureCall.items[3].completedAt # None
  /\ pureCall.items[1].createdAt > pureCall.items[2].createdAt
  /\ Get(pureResult) = <<pureCall.items[3], pureCall.items[2], pureCall.items[1]>>

\* C16: buildTodayTasksPayload has one item per todo of the input that is
\* pinned to today and none for the others; the items of open todos come
\* before those of completed ones; the items of either group are in the order
\* of the input; count is the number of items.
C16_TodayPayload ==
  Returned("buildTodayTasksPayload") =>
    LET todos_ == pureCall.items
        payload == Get(pureResult)
        pinned == {k \in 1..Len(todos_) : todos_[k].isToday}
    IN /\ Len(payload.items) = Cardinality(pinned)
       /\ \A k \in pinned : \E p \in 1..Len(payload.items) : payload.items[p].id = todos_[k].id
       /\ \A p \in 1..Len(payload.items) :
            /\ PlaceOf(todos_, payload.items[p].id) \in pinned
            /\ payload.items[p].completed = todos_[PlaceOf(todos_, payload.items[p].id)].completed
            /\ payload.items[p].title = todos_[PlaceOf(todos_, payload.items[p].id)].title
       /\ \A p, q \in 1..Len(payload.items) :
            p < q =>
              /\ payload.items[p].completed => payload.items[q].completed
              /\ payload.items[p].completed = payload.items[q].completed =>
                   PlaceOf(todos_, payload.items[p].id) < PlaceOf(todos_, payload.items[q].id)
       /\ payload.count = Len(payload.items)

\* a completed todo, a todo not pinned and an open todo of an earlier due
\* date than the first: the open one, then the completed one
C16_Witness ==
  /\ Returned("buildTodayTasksPayload")
  /\ Len(pureCall.items) = 3
  /\ pureCall.items[1].isToday /\ pureCall.items[1].completed
  /\ ~pureCall.items[2].isToday
  /\ pureCall.items[3].isToday /\ ~pureCall.items[3].completed
  /\ IsSome(pureCall.items[1].dueDate) /\ IsSome(pureCall.items[3].dueDate)
  /\ ComparePlainDate(Get(pureCall.items[3].dueDate), Get(pureCall.items[1].dueDate)) < 0
  /\ Get(pureResult).count = 2
  /\ Get(pureResult).items[1].id = <<9, 3>>
  /\ Get(pureResult).items[2].id = <<9, 1>>

\* the kinds of the entries, in order
Kinds(entries) == [k \in 1..Len(entries) |-> entries[k].kind]

\* the kinds every menu ends with
ClosingKinds == <<"separator", "open", "refresh", "separator", "quit">>

\* buildTrayMenuModel has returned for a call with options.error set or not
ReturnedMenu(error) ==
  /\ Returned("buildTrayMenuModel")
  /\ (pureCall.options.error = Some(TRUE)) = error

\* C17: buildTrayMenuModel with options.error set returns the entries error,
\* separator, open, refresh, separator, quit, whatever the payload.
C17_ErrorMenu ==
  ReturnedMenu(TRUE) => Kinds(Get(pureResult)) = <<"error">> \o ClosingKinds

\* options.error was set and the payload had items
C17_Witness ==
  /\ ReturnedMenu(TRUE)
  /\ IsSome(pureCall.payload)
  /\ Len(Get(pureCall.payload).items) = 2
  /\ Len(Get(pureResult)) = 6

\* C18: buildTrayMenuModel with no payload and no error returns the entries
\* summary, empty, separator, open, refresh, separator, quit, the summary
\* showing the count 0.
C18_AbsentMenu ==
  (ReturnedMenu(FALSE) /\ pureCall.payload = None) =>
    /\ Kinds(Get(pureResult)) = <<"summary", "empty">> \o ClosingKinds
    /\ Get(pureResult)[1].label[2] = 0

\* there was no payload and options.error was not given
C18_Witness ==
  /\ ReturnedMenu(FALSE)
  /\ pureCall.payload = None
  /\ pureCall.options.error = None
  /\ Get(pureResult)[2].kind = "empty"

\* C19: buildTrayMenuModel with a payload and no error returns a summary
\* entry showing payload.count, then one empty entry if the payload has no
\* items and else one task entry per item, in the order of the items and with
\* the item's id and completed flag, then separator, open, refresh,
\* separator, quit.
C19_PresentMenu ==
  (ReturnedMenu(FALSE) /\ pureCall.payload # None) =>
    LET payload == pureCall.payload[1]
        entries == Get(pureResult)
        n == Len(payload.items)
        middle == IF n = 0 THEN 1 ELSE n
    IN /\ Len(entries) = 1 + middle + 5
       /\ entries[1].kind = "summary"
       /\ entries[1].label[2] = payload.count
       /\ n = 0 => entries[2].kind = "empty"
       /\ \A i \in 1..n :
            /\ entries[1 + i].kind = "task"
            /\ entries[1 + i].todoId = payload.items[i].id
            /\ entries[1 + i].completed = payload.items[i].completed
       /\ SubSeq(Kinds(entries), 2 + middle, Len(entries)) = ClosingKinds

\* a payload of three items whose count is another number
C19_Witness ==
  /\ ReturnedMenu(FALSE)
  /\ pureCall.payload # None
  /\ Len(pureCall.payload[1].items) = 3
  /\ pureCall.payload[1].count = 7
  /\ pureCall.payload[1].items[1].completed
  /\ ~pureCall.payload[1].items[2].completed
  /\ Len(Get(pureResult)) = 9

\* C20: the label of a task entry is the item's title when the item is not
\* completed; when it is, it is the title with the mark U+0336 after every
\* code point: twice as long as the title, the title at its odd places and
\* the mark at its even ones.
C20_TaskLabel ==
  (ReturnedMenu(FALSE) /\ pureCall.payload # None) =>
    \A i \in 1..Len(pureCall.payload[1].items) :
      LET item == pureCall.payload[1].items[i]
          label == Get(pureResult)[1 + i].label
      IN IF ~item.completed THEN label = item.title
         ELSE /\ Len(label) = 2 * Len(item.title)
              /\ \A k \in 1..Len(item.title) :
                   /\ label[2 * k - 1] = item.title[k]
                   /\ label[2 * k] = StrikethroughMark

\* a completed item of title "ab" and an open one in the same menu
C20_Witness ==
  /\ ReturnedMenu(FALSE)
  /\ pureCall.payload # None
  /\ Len(pureCall.payload[1].items) = 2
  /\ pureCall.payload[1].items[1].completed
  /\ pureCall.payload[1].items[1].title = <<"a", "b">>
  /\ ~pureCall.payload[1].items[2].completed
  /\ Get(pureResult)[2].label = <<"a", StrikethroughMark, "b", StrikethroughMark>>
  /\ Get(pureResult)[3].label = pureCall.payload[1].items[2].title

\* the date buildTrayMenuModel took as today in the call
TodayOfCall ==
  IF pureCall.options.today # None THEN pureCall.options.today[1] ELSE ToPlainDate(clock)

\* the sublabel made of the two labels: both joined by two spaces, the one
\* that is present, or none
SublabelOf(dueLabel, recurrenceLabel) ==
  IF dueLabel # None /\ recurrenceLabel # None
    THEN Some(<<dueLabel[1], "  ", recurrenceLabel[1]>>)
  ELSE IF dueLabel # None THEN Some(<<dueLabel[1]>>)
  ELSE IF recurrenceLabel # None THEN Some(<<recurrenceLabel[1]>>)
  ELSE None

\* the recurrence label of the item with its glyph, if the item has one
LabelOfItem(item) ==
  IF item.recurrenceLabel # None /\ item.recurrenceLabel # Some(<<>>)
    THEN Some(<<"repeat", " ">> \o item.recurrenceLabel[1])
    ELSE None

\* the label of the item, or the general one of an item that has none and
\* whose hasRecurrence is set
LabelOrGeneral(item) ==
  IF LabelOfItem(item) # None THEN LabelOfItem(item)
  ELSE IF item.hasRecurrence THEN Some(<<"repeat", " ", "kurikaeshi">>)
  ELSE None

\* every task entry has the sublabel made of the label of the item's due
\* date and of the recurrence label RecurrenceLabel(item) gives
SublabelsAre(RecurrenceLabel(_)) ==
  (ReturnedMenu(FALSE) /\ pureCall.payload # None) =>
    \A i \in 1..Len(pureCall.payload[1].items) :
      LET item == pureCall.payload[1].items[i]
      IN Get(pureResult)[1 + i].sublabel =
           SublabelOf(formatDueDateIsoForMenu(item.dueDateIso, TodayOfCall),
                      RecurrenceLabel(item))

\* C21 as stated: the sublabel of a task entry is the label of the due date,
\* two spaces and the recurrence label when the item has both, the one it
\* has when it has one, and absent when it has neither.
C21_SublabelOfItemLabels == SublabelsAre(LabelOfItem)

\* C21: as C21_SublabelOfItemLabels, an item without a recurrence label whose
\* hasRecurrence is set counting as having the general recurrence label.
C21_Sublabel == SublabelsAre(LabelOrGeneral)

\* an item with both labels, one with the label of the due date and the
\* general recurrence label, and one with neither
C21_Witness ==
  /\ ReturnedMenu(FALSE)
  /\ pureCall.payload # None
  /\ Len(pureCall.payload[1].items) = 3
  /\ pureCall.payload[1].items[1].recurrenceLabel = Some(<<"getsu", ",", "sui">>)
  /\ Get(pureResult)[2].sublabel =
       Some(<<<<"calendar", " ", "kyou">>, "  ", <<"repeat", " ", "getsu", ",", "sui">>>>)
  /\ pureCall.payload[1].items[2].recurrenceLabel = None
  /\ pureCall.payload[1].items[2].hasRecurrence
  /\ Len(Get(Get(pureResult)[3].sublabel)) = 3
  /\ Get(pureResult)[4].sublabel = None

\* C22: formatDueDateLabel(value, today) returns the label of yesterday
\* exactly when value is the day before today, that of today exactly when
\* value is today, that of tomorrow exactly when value is the day after
\* today, in whichever year that day lies; for any other date it returns
\* month/day when value is in today's year and year/month/day otherwise.
C22_DueDateLabel ==
  Returned("formatDueDateLabel") =>
    LET value == pureCall.value
        days == ToEpochDays(value) - ToEpochDays(pureCall.today)
        label == Get(pureResult)
    IN /\ label = <<"kinou">> <=> days = 0 - 1
       /\ label = <<"kyou">> <=> days = 0
       /\ label = <<"ashita">> <=> days = 1
       /\ (days \notin {0 - 1, 0, 1} /\ value.year = pureCall.today.year) =>
            label = <<value.month, "/", value.day>>
       /\ (days \notin {0 - 1, 0, 1} /\ value.year # pureCall.today.year) =>
            label = <<value.year, "/", value.month, "/", value.day>>

\* today is the last day of a year and the date the first of the next one
C22_Witness ==
  /\ Returned("formatDueDateLabel")
  /\ pureCall.today = PlainDate(2026, 12, 31)
  /\ pureCall.value = PlainDate(2027, 1, 1)
  /\ Get(pureResult) = <<"ashita">>

====
